---- MODULE Spec2Model ----
(***************************************************************************)
(* Model of mds/db/sql.py: the generators of "INSERT INTO ... SELECT ...   *)
(* FROM" statements for the status_changes and trips tables.                *)
(*                                                                         *)
(* A Python str is modelled as a sequence of tokens (TLA+ strings); the    *)
(* comma, the separator of ",".join, is always a token of its own, so that *)
(* a joined string can be split again and its fields counted.  String      *)
(* concatenation is \o.  A Python value is a record [kind, val].           *)
(* The module-level lists _COMMON_INSERTS and _COMMON_SELECTS are mutable  *)
(* objects: they live in an object store, and list() and list.extend() are *)
(* modelled on that store.                                                 *)
(***************************************************************************)
EXTENDS Integers, Sequences, FiniteSets, TLC

VARIABLES _COMMON_INSERTS, _COMMON_SELECTS, last, memo

vars == <<_COMMON_INSERTS, _COMMON_SELECTS, last, memo>>

(***************************** bounds **************************************)
MaxMinor == 5
MaxPatch == 1
MaxActions == 2

(***************************** Python values *******************************)
PyNone == [kind |-> "None", val |-> <<>>]

Omitted == [kind |-> "omitted", val |-> <<>>]

PyStr(tokens) == [kind |-> "str", val |-> tokens]

PyList(items) == [kind |-> "list", val |-> items]

PyDict(pairs) == [kind |-> "dict", val |-> pairs]

PyTuple(items) == [kind |-> "tuple", val |-> items]

PyVersion(triple) == [kind |-> "version", val |-> triple]

\* Python truth value of None, str, list, dict, tuple
Truthy(x) == x.kind # "None" /\ x.val # <<>>

\* the text an f-string puts for {x}
Format(x) == IF x.kind = "None" THEN <<"None">> ELSE x.val

Return(tokens) == [kind |-> "return", val |-> tokens]

Raise(exc, arg) == [kind |-> "raise", val |-> [exc |-> exc, arg |-> arg]]

RECURSIVE Join(_, _)
\* sep.join(items)
Join(sep, items) ==
    IF items = <<>> THEN <<>>
    ELSE IF Len(items) = 1 THEN items[1]
    ELSE items[1] \o sep \o Join(sep, Tail(items))

(***************************** versions ************************************)
\* Version ordering: major, minor, patch
VersionLess(a, b) ==
    \/ a[1] < b[1]
    \/ a[1] = b[1] /\ a[2] < b[2]
    \/ a[1] = b[1] /\ a[2] = b[2] /\ a[3] < b[3]

mds_lower == <<0, 2, 0>>

mds_upper == <<0, 5, 0>>

unsupported(v) == VersionLess(v, mds_lower) \/ ~VersionLess(v, mds_upper)

STATUS_CHANGES == <<"status_changes">>

TRIPS == <<"trips">>

(***************************** on_conflict_statement ***********************)
\* faulty variant: each pair rendered as "value = column"
DictItemsSwapped(pairs) ==
    [i \in 1..Len(pairs) |-> pairs[i][2] \o <<" = ">> \o pairs[i][1]]

\* [f"{k} = {v}" for k,v in actions.items()]
DictItems(pairs) == [i \in 1..Len(pairs) |-> pairs[i][1] \o <<" = ">> \o pairs[i][2]]

\* faulty variant: every truthy directive is unpacked as a pair, without the
\* isinstance(on_conflict_update, tuple) test
on_conflict_statement_untyped(on_conflict_update) ==
    IF Truthy(on_conflict_update)
    THEN IF on_conflict_update.kind # "tuple" \/ Len(on_conflict_update.val) # 2
         THEN Raise("ValueError", <<>>)
         ELSE Return(<<"ON CONFLICT ">> \o Format(on_conflict_update.val[1])
                     \o <<" DO UPDATE SET ">> \o Format(on_conflict_update.val[2]))
    ELSE Return(<<"ON CONFLICT DO NOTHING">>)

on_conflict_statement(on_conflict_update) ==
    IF Truthy(on_conflict_update) /\ on_conflict_update.kind = "tuple"
    THEN IF Len(on_conflict_update.val) # 2
         THEN Raise("ValueError", <<>>)
         ELSE LET condition == on_conflict_update.val[1]
                  actions0 == on_conflict_update.val[2]
                  actions == IF actions0.kind = "list"
                             THEN PyStr(Join(<<",">>, actions0.val))
                             ELSE IF actions0.kind = "dict"
                             THEN PyStr(Join(<<",">>, DictItems(actions0.val)))
                             ELSE actions0
              IN Return(<<"ON CONFLICT ">> \o Format(condition)
                        \o <<" DO UPDATE SET ">> \o Format(actions))
    ELSE Return(<<"ON CONFLICT DO NOTHING">>)

(***************************** object store ********************************)
\* The store is the sequence of the list objects alive during a call; a
\* reference is an index into it.  References 1 and 2 are the module-level
\* lists _COMMON_INSERTS and _COMMON_SELECTS.
CommonInsertsRef == 1

CommonSelectsRef == 2

\* faulty variant: no copy, the same object under a second name
list_alias(store, ref) == [store |-> store, ref |-> ref]

\* list(x): a new list object with the elements of x
list(store, ref) == [store |-> Append(store, store[ref]), ref |-> Len(store) + 1]

\* x.extend(items): the object itself grows
extend(store, ref, items) == [store EXCEPT ![ref] = @ \o items]

(***************************** column lists ********************************)
InitialCommonInserts ==
    << <<"provider_id">>,
       <<"provider_name">>,
       <<"device_id">>,
       <<"vehicle_id">>,
       <<"vehicle_type">>,
       <<"propulsion_type">> >>

\* "vehicle_id," and the literal after it are adjacent string literals with
\* no comma between them: Python concatenates them into one element.
InitialCommonSelects ==
    << <<"cast(", "provider_id", " as uuid)">>,
       <<"provider_name">>,
       <<"cast(", "device_id", " as uuid)">>,
       <<"vehicle_id", ",">> \o <<"cast(", "vehicle_type", " as vehicle_types)">>,
       <<"cast(", "propulsion_type", " as propulsion_types[])">> >>

StatusChangeInserts ==
    << <<"event_type">>,
       <<"event_type_reason">>,
       <<"event_location">>,
       <<"battery_pct">> >>

StatusChangeSelects ==
    << <<"cast(", "event_type", " as event_types)">>,
       <<"cast(", "event_type_reason", " as event_type_reasons)">>,
       <<"cast(", "event_location", " as jsonb)">>,
       <<"battery_pct">> >>

Seconds(column) == <<"to_timestamp(", column, ") at time zone 'UTC'">>

Milliseconds(column) ==
    <<"to_timestamp(cast(", column, " as double precision) / 1000.0) at time zone 'UTC'">>

\* faulty variant: the boundary version 0.3.0 still gets the old columns
StatusChangeVersionInsertsInclusive(version) ==
    IF ~VersionLess(<<0, 3, 0>>, version)
    THEN << <<"event_time">>, <<"associated_trips">> >>
    ELSE << <<"event_time">>, <<"publication_time">>, <<"associated_trip">> >>

StatusChangeVersionInserts(version) ==
    IF VersionLess(version, <<0, 3, 0>>)
    THEN << <<"event_time">>, <<"associated_trips">> >>
    ELSE << <<"event_time">>, <<"publication_time">>, <<"associated_trip">> >>

StatusChangeVersionSelects(version) ==
    IF VersionLess(version, <<0, 3, 0>>)
    THEN << Seconds("event_time"),
            <<"cast(", "associated_trips", " as uuid[])">> >>
    ELSE << Milliseconds("event_time"),
            Milliseconds("publication_time"),
            <<"cast(", "associated_trip", " as uuid)">> >>

TripInserts ==
    << <<"trip_id">>,
       <<"trip_duration">>,
       <<"trip_distance">>,
       <<"route">>,
       <<"accuracy">>,
       <<"parking_verification_url">>,
       <<"standard_cost">>,
       <<"actual_cost">> >>

\* the last three literals are adjacent, without commas between them: one
\* element
TripSelects ==
    << <<"cast(", "trip_id", " as uuid)">>,
       <<"trip_duration">>,
       <<"trip_distance">>,
       <<"cast(", "route", " as jsonb)">>,
       <<"accuracy">>,
       <<"parking_verification_url", ",">> \o <<"standard_cost", ",">> \o <<"actual_cost">> >>

TripVersionInserts(version) ==
    IF VersionLess(version, <<0, 3, 0>>)
    THEN << <<"start_time">>, <<"end_time">> >>
    ELSE << <<"start_time">>, <<"end_time">>, <<"publication_time">> >>

\* faulty variant: the times of 0.3.0 and later still read as seconds
TripVersionSelectsSeconds(version) ==
    IF VersionLess(version, <<0, 3, 0>>)
    THEN << Seconds("start_time"), Seconds("end_time") >>
    ELSE << Seconds("start_time"),
            Seconds("end_time"),
            Seconds("publication_time") >>

TripVersionSelects(version) ==
    IF VersionLess(version, <<0, 3, 0>>)
    THEN << Seconds("start_time"), Seconds("end_time") >>
    ELSE << Milliseconds("start_time"),
            Milliseconds("end_time"),
            Milliseconds("publication_time") >>

(***************************** the builders ********************************)
\* faulty variant: the conflict clause is left out of the template
StatementWithoutConflict(dest_table, inserts, selects, source_table, on_conflict) ==
    <<"\n    INSERT INTO \"">> \o dest_table
    \o <<"\"\n    (">> \o inserts
    \o <<")\n    SELECT ">> \o selects
    \o <<"\n    FROM \"">> \o source_table
    \o <<"\"\n    ">>
    \o <<"\n    ;\n    ">>

\* the f-string both builders return
Statement(dest_table, inserts, selects, source_table, on_conflict) ==
    <<"\n    INSERT INTO \"">> \o dest_table
    \o <<"\"\n    (">> \o inserts
    \o <<")\n    SELECT ">> \o selects
    \o <<"\n    FROM \"">> \o source_table
    \o <<"\"\n    ">> \o on_conflict
    \o <<"\n    ;\n    ">>

\* faulty variant: the version's columns are appended to the module-level
\* lists instead of the copies
AssembleInPlace(store, tableInserts, tableSelects, versionInserts, versionSelects) ==
    LET i == list(store, CommonInsertsRef)
        s1 == extend(i.store, i.ref, tableInserts)
        s == list(s1, CommonSelectsRef)
        s2 == extend(s.store, s.ref, tableSelects)
        s3 == extend(s2, CommonInsertsRef, versionInserts)
        s4 == extend(s3, CommonSelectsRef, versionSelects)
    IN [store |-> s4, inserts |-> s4[i.ref], selects |-> s4[s.ref]]

\* The lists a builder assembles: copies of the two common lists, extended
\* by the table's columns and then by the version's columns.
Assemble(store, tableInserts, tableSelects, versionInserts, versionSelects) ==
    LET i == list(store, CommonInsertsRef)
        s1 == extend(i.store, i.ref, tableInserts)
        s == list(s1, CommonSelectsRef)
        s2 == extend(s.store, s.ref, tableSelects)
        s3 == extend(s2, i.ref, versionInserts)
        s4 == extend(s3, s.ref, versionSelects)
    IN [store |-> s4, inserts |-> s4[i.ref], selects |-> s4[s.ref]]

\* the outcome of a call: what it returns or raises, the store it leaves, and
\* the lists it joined (empty when it raised)
Outcome(out, store, inserts, selects) ==
    [out |-> out, store |-> store, inserts |-> inserts, selects |-> selects]

\* Version(kwargs.pop("version", Version.mds_lower()))
ResolveVersion(version) == IF version.kind = "omitted" THEN mds_lower ELSE version.val

\* kwargs.pop("on_conflict_update", None)
ResolveConflict(on_conflict_update) ==
    IF on_conflict_update.kind = "omitted" THEN PyNone ELSE on_conflict_update

\* the part of a builder after the conflict clause: assemble the lists, join
\* them, fill the template
Build(store, source_table, dest_table, on_conflict, tableInserts, tableSelects, versionInserts, versionSelects) ==
    LET a == Assemble(store, tableInserts, tableSelects, versionInserts, versionSelects)
    IN  Outcome(Return(Statement(dest_table, Join(<<",">>, a.inserts),
                                 Join(<<",">>, a.selects), source_table, on_conflict)),
                a.store, a.inserts, a.selects)

\* faulty variant: the conflict clause is computed before the version is
\* checked
insert_status_changes_from_conflict_first(store, source_table, dest_table, on_conflict_update, version) ==
    LET v == ResolveVersion(version)
        dest == IF dest_table.kind = "omitted" THEN STATUS_CHANGES ELSE dest_table.val
        on_conflict == on_conflict_statement(ResolveConflict(on_conflict_update))
    IN  IF on_conflict.kind = "raise"
        THEN Outcome(on_conflict, store, <<>>, <<>>)
        ELSE IF unsupported(v)
        THEN Outcome(Raise("UnsupportedVersionError", v), store, <<>>, <<>>)
        ELSE Build(store, source_table.val, dest, on_conflict.val,
                   StatusChangeInserts, StatusChangeSelects,
                   StatusChangeVersionInserts(v), StatusChangeVersionSelects(v))

insert_status_changes_from(store, source_table, dest_table, on_conflict_update, version) ==
    LET v == ResolveVersion(version)
        dest == IF dest_table.kind = "omitted" THEN STATUS_CHANGES ELSE dest_table.val
    IN  IF unsupported(v)
        THEN Outcome(Raise("UnsupportedVersionError", v), store, <<>>, <<>>)
        ELSE LET on_conflict == on_conflict_statement(ResolveConflict(on_conflict_update))
             IN  IF on_conflict.kind = "raise"
                 THEN Outcome(on_conflict, store, <<>>, <<>>)
                 ELSE Build(store, source_table.val, dest, on_conflict.val,
                            StatusChangeInserts, StatusChangeSelects,
                            StatusChangeVersionInserts(v), StatusChangeVersionSelects(v))

\* faulty variant: no check of the version
insert_trips_from_unchecked(store, source_table, dest_table, on_conflict_update, version) ==
    LET v == ResolveVersion(version)
        dest == IF dest_table.kind = "omitted" THEN TRIPS ELSE dest_table.val
        on_conflict == on_conflict_statement(ResolveConflict(on_conflict_update))
    IN  IF on_conflict.kind = "raise"
        THEN Outcome(on_conflict, store, <<>>, <<>>)
        ELSE Build(store, source_table.val, dest, on_conflict.val,
                   TripInserts, TripSelects,
                   TripVersionInserts(v), TripVersionSelects(v))

insert_trips_from(store, source_table, dest_table, on_conflict_update, version) ==
    LET v == ResolveVersion(version)
        dest == IF dest_table.kind = "omitted" THEN TRIPS ELSE dest_table.val
    IN  IF unsupported(v)
        THEN Outcome(Raise("UnsupportedVersionError", v), store, <<>>, <<>>)
        ELSE LET on_conflict == on_conflict_statement(ResolveConflict(on_conflict_update))
             IN  IF on_conflict.kind = "raise"
                 THEN Outcome(on_conflict, store, <<>>, <<>>)
                 ELSE Build(store, source_table.val, dest, on_conflict.val,
                            TripInserts, TripSelects,
                            TripVersionInserts(v), TripVersionSelects(v))

(***************************** inputs ***************************************)
RECURSIVE SeqsUpTo(_, _)
\* the sequences over S of length at most n
SeqsUpTo(S, n) ==
    IF n = 0 THEN {<<>>}
    ELSE LET shorter == SeqsUpTo(S, n - 1)
         IN  shorter \cup {Append(q, x) : q \in shorter, x \in S}

Versions == {<<0, m, p>> : m \in 1..MaxMinor, p \in 0..MaxPatch} \cup {<<1, 0, 0>>}

VersionInputs == {Omitted} \cup {PyVersion(v) : v \in Versions}

Condition == PyStr(<<"(provider_id", ",", "device_id)">>)

Fragments == {<<"battery_pct", " = ", "EXCLUDED.battery_pct">>,
              <<"event_time", " = ", "EXCLUDED.event_time">>}

Pairs == {<< <<"battery_pct">>, <<"EXCLUDED.battery_pct">> >>,
          << <<"event_time">>, <<"EXCLUDED.event_time">> >>}

\* a dict has each key once
DistinctKeys(pairs) ==
    \A i, j \in 1..Len(pairs) : pairs[i][1] = pairs[j][1] => i = j

ActionValues ==
    {PyStr(<<"battery_pct", " = ", "0">>), PyNone}
    \cup {PyList(l) : l \in SeqsUpTo(Fragments, MaxActions)}
    \cup {PyDict(d) : d \in {q \in SeqsUpTo(Pairs, MaxActions) : DistinctKeys(q)}}

Directives ==
    {PyTuple(<<>>), PyTuple(<<Condition>>), PyTuple(<<Condition, PyNone, PyNone>>)}
    \cup {PyTuple(<<Condition, a>>) : a \in ActionValues}
    \cup ActionValues

BatteryPair == << <<"battery_pct">>, <<"EXCLUDED.battery_pct">> >>

TimePair == << <<"event_time">>, <<"EXCLUDED.event_time">> >>

\* what the callers of the builders pass as on_conflict_update
BuilderDirectives ==
    { Omitted,
      PyNone,
      PyTuple(<<Condition, PyStr(<<"battery_pct", " = ", "0">>)>>),
      PyTuple(<<Condition, PyList(<< <<"battery_pct", " = ", "EXCLUDED.battery_pct">> >>)>>),
      PyTuple(<<Condition, PyDict(<<BatteryPair, TimePair>>)>>),
      PyTuple(<<Condition>>),
      PyTuple(<<Condition, PyNone, PyNone>>),
      PyDict(<<BatteryPair>>) }

Tables == { <<PyStr(<<"stage_status_changes">>), Omitted>>,
            <<PyStr(<<"stage_trips">>), PyStr(<<"trips_copy">>)>> }

\* the inputs of the runs that compare two calls
ObservedVersionInputs == {Omitted} \cup {PyVersion(<<0, m, 0>>) : m \in 1..MaxMinor}

ObservedDirectives ==
    { Omitted,
      PyTuple(<<Condition, PyDict(<<BatteryPair>>)>>),
      PyTuple(<<Condition>>) }

(***************************** state ***************************************)
Args(source_table, dest_table, on_conflict_update, version) ==
    [source_table |-> source_table, dest_table |-> dest_table,
     on_conflict_update |-> on_conflict_update, version |-> version]

NoCall ==
    [fn |-> "none", args |-> Args(Omitted, Omitted, Omitted, Omitted),
     out |-> [kind |-> "none", val |-> <<>>], inserts |-> <<>>, selects |-> <<>>]

Init ==
    /\ _COMMON_INSERTS = InitialCommonInserts
    /\ _COMMON_SELECTS = InitialCommonSelects
    /\ last = NoCall
    /\ memo = NoCall

\* A call of fn with args, whose outcome is r: the module-level lists are
\* what the call leaves in the store.
Call(fn, args, r) ==
    /\ last' = [fn |-> fn, args |-> args, out |-> r.out,
                inserts |-> r.inserts, selects |-> r.selects]
    /\ _COMMON_INSERTS' = r.store[CommonInsertsRef]
    /\ _COMMON_SELECTS' = r.store[CommonSelectsRef]

Store == <<_COMMON_INSERTS, _COMMON_SELECTS>>

OnConflictStatementCall(directives) ==
    \E d \in directives :
        Call("on_conflict_statement", Args(Omitted, Omitted, d, Omitted),
             Outcome(on_conflict_statement(d), Store, <<>>, <<>>))

InsertStatusChangesFromCall(directives, versions) ==
    \E t \in Tables, d \in directives, v \in versions :
        Call("insert_status_changes_from", Args(t[1], t[2], d, v),
             insert_status_changes_from(Store, t[1], t[2], d, v))

InsertTripsFromCall(directives, versions) ==
    \E t \in Tables, d \in directives, v \in versions :
        Call("insert_trips_from", Args(t[1], t[2], d, v),
             insert_trips_from(Store, t[1], t[2], d, v))

CallOnConflictStatement ==
    OnConflictStatementCall(Directives) /\ UNCHANGED memo

CallInsertStatusChangesFrom ==
    InsertStatusChangesFromCall(BuilderDirectives, VersionInputs) /\ UNCHANGED memo

CallInsertTripsFrom ==
    InsertTripsFromCall(BuilderDirectives, VersionInputs) /\ UNCHANGED memo

Next ==
    \/ CallOnConflictStatement
    \/ CallInsertStatusChangesFrom
    \/ CallInsertTripsFrom

Spec == Init /\ [][Next]_vars

\* The same calls under an observer that keeps one earlier call of its
\* choice, to compare later calls with it.
Remember == memo' \in {memo, last}

ObservedOnConflictStatement ==
    OnConflictStatementCall(ObservedDirectives \ {Omitted}) /\ Remember

ObservedInsertStatusChangesFrom ==
    InsertStatusChangesFromCall(ObservedDirectives, ObservedVersionInputs) /\ Remember

ObservedInsertTripsFrom ==
    InsertTripsFromCall(ObservedDirectives, ObservedVersionInputs) /\ Remember

NextObserved ==
    \/ ObservedOnConflictStatement
    \/ ObservedInsertStatusChangesFrom
    \/ ObservedInsertTripsFrom

SpecObserved == Init /\ [][NextObserved]_vars

TypeOK ==
    /\ last.fn \in {"none", "on_conflict_statement", "insert_status_changes_from", "insert_trips_from"}
    /\ last.out.kind \in {"none", "return", "raise"}

(***************************** reading a statement *************************)
Range(q) == {q[i] : i \in 1..Len(q)}

\* the first position of token in q, 0 when it is not there
IndexOf(q, token) ==
    IF token \in Range(q) THEN CHOOSE i \in 1..Len(q) : q[i] = token /\ \A j \in 1..(i - 1) : q[j] # token
    ELSE 0

\* the tokens of q strictly between the first opening and the first closing
Between(q, opening, closing) ==
    SubSeq(q, IndexOf(q, opening) + 1, IndexOf(q, closing) - 1)

RECURSIVE Fields(_)
\* the comma-separated fields of a text
Fields(q) ==
    IF q = <<>> THEN <<>>
    ELSE LET c == IndexOf(q, ",")
         IN  IF c = 0 THEN <<q>>
             ELSE <<SubSeq(q, 1, c - 1)>> \o Fields(SubSeq(q, c + 1, Len(q)))

\* sub occurs in q as consecutive tokens
Contains(q, sub) ==
    \E i \in 1..(Len(q) - Len(sub) + 1) : SubSeq(q, i, i + Len(sub) - 1) = sub

EndsWith(q, suffix) ==
    /\ Len(q) >= Len(suffix)
    /\ SubSeq(q, Len(q) - Len(suffix) + 1, Len(q)) = suffix

\* the inserted columns and the select expressions of a statement
InsertColumns(stmt) == Fields(Between(stmt, "\"\n    (", ")\n    SELECT "))

SelectExpressions(stmt) == Fields(Between(stmt, ")\n    SELECT ", "\n    FROM \""))

\* the select expression standing at the position of column
SelectFor(stmt, column) == SelectExpressions(stmt)[IndexOf(InsertColumns(stmt), <<column>>)]

Builders == {"insert_status_changes_from", "insert_trips_from"}

Returned == last.out.kind = "return"

Raised(exc) == last.out.kind = "raise" /\ last.out.val.exc = exc

LastVersion == ResolveVersion(last.args.version)

LastDirective == ResolveConflict(last.args.on_conflict_update)

\* a tuple that is not a (condition, actions) pair
Malformed(d) == d.kind = "tuple" /\ d.val # <<>> /\ Len(d.val) # 2

(***************************** properties **********************************)
\* C1: in both builders, for every table and directive, a call whose
\* resolved version is unsupported raises UnsupportedVersionError carrying
\* that version, and returns no statement.
C1_UnsupportedVersionRaises ==
    (last.fn \in Builders /\ unsupported(LastVersion))
        => /\ ~Returned
           /\ last.out = Raise("UnsupportedVersionError", LastVersion)

C1_Witness ==
    /\ last.fn = "insert_trips_from"
    /\ LastVersion = <<0, 5, 0>>
    /\ LastDirective.kind = "tuple"
    /\ Raised("UnsupportedVersionError")

\* C2: for every supported version and both builders, the lists the statement
\* is assembled from (the common lists included) have as many select
\* expressions as insert columns, and the expression at each position is the
\* one of the column at that position.
C2_ListsCorrespond ==
    (last.fn \in Builders /\ Returned)
        => /\ Len(_COMMON_INSERTS) = Len(_COMMON_SELECTS)
           /\ Len(last.inserts) = Len(last.selects)
           /\ \A i \in 1..Len(last.inserts) :
                  i <= Len(last.selects) => last.inserts[i][1] \in Range(last.selects[i])

\* C3: a status_changes statement for a version below 0.3.0 has the column
\* associated_trips, selected as cast(associated_trips as uuid[]), and no
\* publication_time column; for 0.3.0 and later it has the column
\* associated_trip, selected as cast(associated_trip as uuid), a
\* publication_time column, and nowhere the plural associated_trips.
C3_AssociatedTrips ==
    (last.fn = "insert_status_changes_from" /\ Returned)
        => LET stmt == last.out.val
               columns == Range(InsertColumns(stmt))
           IN  IF VersionLess(LastVersion, <<0, 3, 0>>)
               THEN /\ <<"associated_trips">> \in columns
                    /\ SelectFor(stmt, "associated_trips") = <<"cast(", "associated_trips", " as uuid[])">>
                    /\ <<"publication_time">> \notin columns
               ELSE /\ <<"associated_trip">> \in columns
                    /\ SelectFor(stmt, "associated_trip") = <<"cast(", "associated_trip", " as uuid)">>
                    /\ <<"publication_time">> \in columns
                    /\ "associated_trips" \notin Range(stmt)

C3_Witness ==
    /\ last.fn = "insert_status_changes_from"
    /\ LastVersion = <<0, 3, 0>>
    /\ Returned
    /\ <<"associated_trip">> \in Range(InsertColumns(last.out.val))

\* C4: a trips statement for a version below 0.3.0 has inserted columns
\* ending with start_time,end_time, no publication_time, and start_time
\* selected in the seconds form; for 0.3.0 and later the columns end with
\* start_time,end_time,publication_time and start_time is selected in the
\* milliseconds form.
C4_TripTimes ==
    (last.fn = "insert_trips_from" /\ Returned)
        => LET stmt == last.out.val
               columns == Between(stmt, "\"\n    (", ")\n    SELECT ")
           IN  IF VersionLess(LastVersion, <<0, 3, 0>>)
               THEN /\ EndsWith(columns, <<",", "start_time", ",", "end_time">>)
                    /\ "publication_time" \notin Range(columns)
                    /\ SelectFor(stmt, "start_time")
                         = <<"to_timestamp(", "start_time", ") at time zone 'UTC'">>
               ELSE /\ EndsWith(columns, <<",", "start_time", ",", "end_time", ",", "publication_time">>)
                    /\ SelectFor(stmt, "start_time")
                         = <<"to_timestamp(cast(", "start_time",
                             " as double precision) / 1000.0) at time zone 'UTC'">>

C4_Witness ==
    /\ last.fn = "insert_trips_from"
    /\ LastVersion = <<0, 4, 0>>
    /\ Returned
    /\ <<"publication_time">> \in Range(InsertColumns(last.out.val))

\* C5: on_conflict_statement, given a (condition, actions) pair, returns
\* "ON CONFLICT <condition> DO UPDATE SET <actions>", <actions> being the
\* string itself for a string, the fragments in list order separated by
\* commas for a list, and "<column> = <value>" in the mapping's order
\* separated by commas for a mapping.
C5_DoUpdateSet ==
    (/\ last.fn = "on_conflict_statement"
     /\ LastDirective.kind = "tuple"
     /\ Len(LastDirective.val) = 2
     /\ LastDirective.val[2].kind \in {"str", "list", "dict"})
        => /\ Returned
           /\ LET out == last.out.val
                  condition == LastDirective.val[1]
                  actions == LastDirective.val[2]
                  k == IndexOf(out, " DO UPDATE SET ")
                  text == SubSeq(out, k + 1, Len(out))
              IN  /\ k > 0
                  /\ SubSeq(out, 1, k - 1) = <<"ON CONFLICT ">> \o condition.val
                  /\ actions.kind = "str" => text = actions.val
                  /\ actions.kind = "list" => Fields(text) = actions.val
                  /\ actions.kind = "dict"
                       => /\ Len(Fields(text)) = Len(actions.val)
                          /\ \A i \in 1..Len(actions.val) :
                                 Fields(text)[i] = actions.val[i][1] \o <<" = ">> \o actions.val[i][2]

C5_Witness ==
    /\ last.fn = "on_conflict_statement"
    /\ LastDirective = PyTuple(<<Condition, PyDict(<<BatteryPair>>)>>)
    /\ Returned
    /\ Contains(last.out.val, <<"battery_pct", " = ", "EXCLUDED.battery_pct">>)

\* C6: in both builders and for every supported version, a call without a
\* conflict directive returns a statement that has the clause
\* ON CONFLICT DO NOTHING after FROM "<source table>" and before the final
\* semicolon, and has no DO UPDATE SET.
C6_DoNothingByDefault ==
    (/\ last.fn \in Builders
     /\ ~unsupported(LastVersion)
     /\ last.args.on_conflict_update.kind = "omitted")
        => /\ Returned
           /\ EndsWith(last.out.val,
                       <<"\n    FROM \"">> \o last.args.source_table.val
                       \o <<"\"\n    ", "ON CONFLICT DO NOTHING", "\n    ;\n    ">>)
           /\ " DO UPDATE SET " \notin Range(last.out.val)

C6_Witness ==
    /\ last.fn = "insert_status_changes_from"
    /\ last.args.on_conflict_update.kind = "omitted"
    /\ Returned
    /\ "ON CONFLICT DO NOTHING" \in Range(last.out.val)

\* C7: after any sequence of calls, failed or not, the module-level lists
\* _COMMON_INSERTS and _COMMON_SELECTS hold their initial contents.
C7_CommonListsUnchanged ==
    /\ _COMMON_INSERTS = InitialCommonInserts
    /\ _COMMON_SELECTS = InitialCommonSelects

C7_Witness ==
    /\ last.fn = "insert_status_changes_from"
    /\ Returned
    /\ Len(last.inserts) > Len(InitialCommonInserts)
    /\ Len(last.selects) > Len(InitialCommonSelects)
    /\ _COMMON_INSERTS = InitialCommonInserts

\* C8: two calls of the same builder with the same arguments have the same
\* outcome, whatever calls were made before or between them.
C8_Deterministic ==
    (memo.fn \in Builders /\ memo.fn = last.fn /\ memo.args = last.args)
        => memo.out = last.out

C8_Witness ==
    /\ memo.fn = "insert_trips_from"
    /\ last.fn = "insert_trips_from"
    /\ memo.args = last.args
    /\ Returned
    /\ memo.out = last.out

\* C9: the version is checked before the conflict clause is computed: a
\* builder called with a tuple that is not a (condition, actions) pair raises
\* UnsupportedVersionError when the version is unsupported, and the error of
\* the directive only when the version is supported.
C9_VersionCheckedFirst ==
    (last.fn \in Builders /\ Malformed(LastDirective))
        => IF unsupported(LastVersion)
           THEN last.out = Raise("UnsupportedVersionError", LastVersion)
           ELSE Raised("ValueError")

C9_Witness ==
    /\ last.fn = "insert_status_changes_from"
    /\ Malformed(LastDirective)
    /\ unsupported(LastVersion)
    /\ Raised("UnsupportedVersionError")

====
